---- MODULE Spec2Model ----
(***************************************************************************)
(* Model of the clinical RAG pipeline of ARQ_Clinical_RAG:                 *)
(*   - chunk_text            (src/src/chunk_playground.py)                 *)
(*   - ingest_pdfs           (src/src/ingest.py)                           *)
(*   - retrieve_context, build_context_block, answer_question              *)
(*                           (src/src/rag_core.py)                         *)
(* Python strings are TLA+ strings: Len, \o and SubSeq act on them as      *)
(* len(), + and slicing do.                                                *)
(***************************************************************************)
EXTENDS Integers, Sequences, FiniteSets, TLC

VARIABLES
    \* ---- chunk_text(text, chunk_size, overlap) ----
    text,        \* the argument text
    chunk_size,  \* the argument chunk_size
    overlap,     \* the argument overlap
    start,       \* local: start index of the current window
    chunks,      \* local: list of emitted chunks
    windows,     \* history of the (start, end) pairs the loop computed
    cpc,         \* position in chunk_text: "call", "loop", "done"
    \* ---- build_context_block(docs, metas) ----
    bdocs,       \* the argument docs
    bmetas,      \* the argument metas
    blocks,      \* local: list of formatted blocks
    bi,          \* number of (doc, meta) pairs the for loop has consumed
    bcontext,    \* the returned string
    bpc,         \* position in build_context_block: "call", "loop", "done"
    \* ---- answer_question(query, llm_model, top_k) ----
    query,       \* the argument query
    top_k,       \* the argument top_k
    docs,        \* local: documents returned by retrieve_context
    metas,       \* local: metadatas returned by retrieve_context
    context,     \* local: the context block
    messages,    \* local: the messages given to chat
    resp,        \* local: the chat response
    answer,      \* the returned string (meaningful when apc = "returned")
    raisedExc,   \* the exception that left answer_question ("none" if none)
    collabExc,   \* the exception a collaborator raised ("none" if none)
    failedAt,    \* the step whose collaborator raised ("none" if none)
    accesses,    \* the access shapes tried on the response, in order
    connectCalls, \* calls of get_collection
    queryCalls,  \* calls of collection.query
    chatCalls,   \* calls of chat
    apc,         \* position in answer_question
    \* ---- ingest_pdfs() and what it reads and writes ----
    dirExists,   \* whether PDF_DIR exists
    pdfs,        \* the PDFs in PDF_DIR: stem -> document (its pages)
    storeMode,   \* what the collection does on add of a present id
    store,       \* the collection: id -> [document, metadata]
    store0,      \* the collection as it was when the current run began
    pdf_files,   \* local: the sorted stems of the PDFs found
    di,          \* number of PDFs the for loop has processed
    all_ids,     \* local accumulator
    all_docs,    \* local accumulator
    all_metas,   \* local accumulator
    addCalls,    \* calls of collection.add in the current run
    outcome,     \* how the current run ended ("none" while running): the
                 \* line it printed last when it returned with no chunks,
                 \* a label for every other end
    ipc,         \* position in ingest_pdfs
    prev,        \* the outcome of the run before the current one, and
                 \* whether the current run found the PDFs unchanged
    \* extract_text_from_pdf
    pdf,         \* the PDF at pdf_path: whether it opens, and its pages
    texts,       \* local: the text collected per page
    pg,          \* number of pages the for loop has processed
    joined_text, \* the returned string
    logged,      \* page numbers passed to logger.exception
    epc,         \* position in extract_text_from_pdf
    \* the chat page of app.py
    history,     \* st.session_state.history: the turns, oldest first
    user_input,  \* what st.chat_input returned in the current script run
    ui_answer,   \* local `answer` of the page script
    shown,       \* the chat messages the current script run has rendered
    lastExc,     \* what answer_question raised in the current run, if anything
    asked,       \* number of questions submitted so far
    upc          \* position in the page script

chunkVars == <<text, chunk_size, overlap, start, chunks, windows, cpc>>

ctxVars == <<bdocs, bmetas, blocks, bi, bcontext, bpc>>

ansVars == <<query, top_k, docs, metas, context, messages, resp, answer,
             raisedExc, collabExc, failedAt, accesses,
             connectCalls, queryCalls, chatCalls, apc>>

ingVars == <<dirExists, pdfs, storeMode, store, store0, pdf_files, di,
             all_ids, all_docs, all_metas, addCalls, outcome, ipc, prev>>

extVars == <<pdf, texts, pg, joined_text, logged, epc>>

uiVars == <<history, user_input, ui_answer, shown, lastExc, asked, upc>>

vars == <<chunkVars, ctxVars, ansVars, ingVars, extVars, uiVars>>

(***************************************************************************)
(* Bounds                                                                  *)
(***************************************************************************)
MaxLen == 4        \* longest text given to chunk_text
MaxChunkSize == 4  \* largest chunk_size tried
MaxOverlap == 3    \* largest overlap tried
MaxScan == 7       \* cap on scanned windows (only a non-advancing scan reaches it)
MaxRetrieved == 3  \* longest chunk sequence given to build_context_block
MaxTopK == 2       \* largest top_k asked of answer_question

\* Chunking configuration of ingest_pdfs
CHUNK_SIZE == 1200
OVERLAP == 200

\* The texts chunk_text is given in a variable are ASCII: TLC does not keep
\* a character above 0x7f intact in a string of a state it has written to
\* its queue.  Whitespace outside ASCII is tried on texts written as
\* literals (UnicodeText, UnicodeShortText, AllWhitespaceText, BlankPdf).
Alphabet == {"a", "b", " ", "\t"}

\* The characters str.strip() removes: tab, newline, vertical tab, form feed,
\* carriage return, the separators 0x1c-0x1f, space, next line (0x85),
\* no-break space (0xa0) and ogham space mark (U+1680).  Python removes
\* U+2000-U+200A, U+2028, U+2029, U+202F, U+205F and U+3000 as well; a string
\* literal with one of those is a lexical error for the parser, so no text of
\* this module contains them.
Whitespace ==
    {" ", "\n", "\t", "\r", "\f",
     "", "", "", "", "", "", " ", " "}

\* s * n
RECURSIVE PyRepeat(_, _)
PyRepeat(s, n) ==
    IF n = 0 THEN ""
    ELSE IF n % 2 = 0
         THEN LET h == PyRepeat(s, n \div 2) IN h \o h
         ELSE s \o PyRepeat(s, n - 1)

Min(a, b) == IF a < b THEN a ELSE b
Max(a, b) == IF a > b THEN a ELSE b

\* All strings over Alphabet of length exactly k / at most k.
RECURSIVE StringsOfLen(_)
StringsOfLen(k) ==
    IF k = 0 THEN {""}
    ELSE {s \o c : s \in StringsOfLen(k - 1), c \in Alphabet}

Strings(k) == UNION {StringsOfLen(j) : j \in 0..k}

(***************************************************************************)
(* Python string primitives                                                *)
(***************************************************************************)
\* s[i:j] with Python's index normalisation (negative indices count from
\* the end, out-of-range indices are clamped).
PyIndex(n, k) == IF k < 0 THEN Max(k + n, 0) ELSE Min(k, n)

PySlice(s, i, j) ==
    LET lo == PyIndex(Len(s), i)
        hi == PyIndex(Len(s), j)
    IN  IF lo >= hi THEN "" ELSE SubSeq(s, lo + 1, hi)

\* whether str.strip() removes the i-th character of s
IsWhitespaceAt(s, i) == SubSeq(s, i, i) \in Whitespace

\* s.lstrip(): s from its first character that is not whitespace
PyLStrip(s) ==
    IF \A i \in 1..Len(s) : IsWhitespaceAt(s, i) THEN ""
    ELSE SubSeq(s,
                CHOOSE i \in 1..Len(s) :
                    /\ ~IsWhitespaceAt(s, i)
                    /\ \A j \in 1..(i - 1) : IsWhitespaceAt(s, j),
                Len(s))

\* s.rstrip(): s up to its last character that is not whitespace
PyRStrip(s) ==
    IF \A i \in 1..Len(s) : IsWhitespaceAt(s, i) THEN ""
    ELSE SubSeq(s, 1,
                CHOOSE i \in 1..Len(s) :
                    /\ ~IsWhitespaceAt(s, i)
                    /\ \A j \in (i + 1)..Len(s) : IsWhitespaceAt(s, j))

\* s.strip()
PyStrip(s) == PyRStrip(PyLStrip(s))

\* mutant of ChunkWindow: the window is one character short
ChunkWindowShort(t, st, cs) == PySlice(t, st, st + cs - 1)

(***************************************************************************)
(* chunk_text: one iteration of the while loop, split by statement         *)
(***************************************************************************)
\* chunk = text[start:end] with end = start + chunk_size
ChunkWindow(t, st, cs) == PySlice(t, st, st + cs)

\* mutant of ChunkAppend: stores the trimmed window
ChunkAppendTrimmed(cks, chunk) ==
    IF PyStrip(chunk) # "" THEN Append(cks, PyStrip(chunk)) ELSE cks

\* if chunk.strip(): chunks.append(chunk)
ChunkAppend(cks, chunk) ==
    IF PyStrip(chunk) # "" THEN Append(cks, chunk) ELSE cks

\* mutant of ChunkAdvance: subtracts the wrong way round
ChunkAdvanceSwapped(st, cs, ov) == st + ov - cs

\* mutant of ChunkAdvance: forgets the overlap
ChunkAdvanceNoOverlap(st, cs, ov) == st + cs

\* start += chunk_size - overlap
ChunkAdvance(st, cs, ov) == st + cs - ov

\* chunk_text as a function: the loop run to completion.  Only used where
\* the code calls it with chunk_size > overlap.
RECURSIVE ChunkLoop(_, _, _, _, _)
ChunkLoop(t, cs, ov, st, cks) ==
    IF st < Len(t)
    THEN ChunkLoop(t, cs, ov, ChunkAdvance(st, cs, ov),
                   ChunkAppend(cks, ChunkWindow(t, st, cs)))
    ELSE cks

ChunkText(t, cs, ov) == ChunkLoop(t, cs, ov, 0, <<>>)

ChunkStart ==
    /\ text \in Strings(MaxLen)
    /\ chunk_size \in 0..MaxChunkSize
    /\ overlap \in 0..MaxOverlap
    /\ start = 0
    /\ chunks = <<>>
    /\ windows = <<>>
    /\ cpc = "call"

\* chunks = []; start = 0; n = len(text)
ChunkEnter ==
    /\ cpc = "call"
    /\ start' = 0
    /\ chunks' = <<>>
    /\ windows' = <<>>
    /\ cpc' = "loop"
    /\ UNCHANGED <<text, chunk_size, overlap>>
    /\ UNCHANGED <<ctxVars, ansVars, ingVars, extVars, uiVars>>

\* one pass through the body of `while start < n`
ChunkStep ==
    /\ cpc = "loop"
    /\ start < Len(text)
    /\ Len(windows) < MaxScan
    /\ windows' = Append(windows, [start |-> start, end |-> start + chunk_size])
    /\ chunks' = ChunkAppend(chunks, ChunkWindow(text, start, chunk_size))
    /\ start' = ChunkAdvance(start, chunk_size, overlap)
    /\ UNCHANGED <<text, chunk_size, overlap, cpc>>
    /\ UNCHANGED <<ctxVars, ansVars, ingVars, extVars, uiVars>>

\* loop condition false: return chunks
ChunkReturn ==
    /\ cpc = "loop"
    /\ ~(start < Len(text))
    /\ cpc' = "done"
    /\ UNCHANGED <<text, chunk_size, overlap, start, chunks, windows>>
    /\ UNCHANGED <<ctxVars, ansVars, ingVars, extVars, uiVars>>

\* chunk_text not in use
ChunkIdle ==
    /\ text = "" /\ chunk_size = 0 /\ overlap = 0 /\ start = 0
    /\ chunks = <<>> /\ windows = <<>> /\ cpc = "idle"

(***************************************************************************)
(* build_context_block                                                     *)
(***************************************************************************)
\* The chunks a query can return: text plus the metadata ingest_pdfs stored.
RetrievableChunks ==
    { [doc |-> "ab a", meta |-> [source |-> "ich_e9.pdf", chunk_index |-> 3]],
      [doc |-> "b\nb", meta |-> [source |-> "ich_e9.pdf", chunk_index |-> 7]],
      [doc |-> "a", meta |-> [source |-> "ich_e6.pdf", chunk_index |-> 0]],
      [doc |-> " ba", meta |-> [source |-> "fda.pdf", chunk_index |-> 12]] }

\* Sequences of retrievable chunks of length exactly k / at most k.
RECURSIVE ChunkSeqsOfLen(_)
ChunkSeqsOfLen(k) ==
    IF k = 0 THEN {<<>>}
    ELSE {Append(q, c) : q \in ChunkSeqsOfLen(k - 1), c \in RetrievableChunks}

ChunkSeqs(k) == UNION {ChunkSeqsOfLen(j) : j \in 0..k}

DocsOf(q) == [i \in 1..Len(q) |-> q[i].doc]
MetasOf(q) == [i \in 1..Len(q) |-> q[i].meta]

\* header = f"[Source: {src} | chunk {idx}]"; block = f"{header}\n{doc}"
ContextBlockOf(doc, meta) ==
    "[Source: " \o meta.source \o " | chunk " \o ToString(meta.chunk_index)
        \o "]" \o "\n" \o doc

\* sep.join(parts)
RECURSIVE PyJoin(_, _)
PyJoin(sep, parts) ==
    IF Len(parts) = 0 THEN ""
    ELSE IF Len(parts) = 1 THEN parts[1]
    ELSE parts[1] \o sep \o PyJoin(sep, Tail(parts))

\* mutant of ContextJoin: blocks separated by a single newline
ContextJoinNoBlankLine(bs) == PyJoin("\n", bs)

\* "\n\n".join(blocks)
ContextJoin(bs) == PyJoin("\n\n", bs)

\* zip(docs, metas) stops at the shorter sequence
ZipLen(ds, ms) == Min(Len(ds), Len(ms))

\* build_context_block as a function
BuildContextBlock(ds, ms) ==
    ContextJoin([i \in 1..ZipLen(ds, ms) |-> ContextBlockOf(ds[i], ms[i])])

ContextIdle ==
    /\ bdocs = <<>> /\ bmetas = <<>> /\ blocks = <<>> /\ bi = 0
    /\ bcontext = "" /\ bpc = "idle"

ContextStart ==
    /\ \E q \in ChunkSeqs(MaxRetrieved) : bdocs = DocsOf(q) /\ bmetas = MetasOf(q)
    /\ blocks = <<>> /\ bi = 0 /\ bcontext = "" /\ bpc = "call"

\* blocks = []
ContextEnter ==
    /\ bpc = "call"
    /\ blocks' = <<>>
    /\ bi' = 0
    /\ bpc' = "loop"
    /\ UNCHANGED <<bdocs, bmetas, bcontext>>
    /\ UNCHANGED <<chunkVars, ansVars, ingVars, extVars, uiVars>>

\* one pass through the body of `for doc, meta in zip(docs, metas)`
ContextStep ==
    /\ bpc = "loop"
    /\ bi < ZipLen(bdocs, bmetas)
    /\ blocks' = Append(blocks, ContextBlockOf(bdocs[bi + 1], bmetas[bi + 1]))
    /\ bi' = bi + 1
    /\ UNCHANGED <<bdocs, bmetas, bcontext, bpc>>
    /\ UNCHANGED <<chunkVars, ansVars, ingVars, extVars, uiVars>>

\* return "\n\n".join(blocks)
ContextReturn ==
    /\ bpc = "loop"
    /\ bi = ZipLen(bdocs, bmetas)
    /\ bcontext' = ContextJoin(blocks)
    /\ bpc' = "done"
    /\ UNCHANGED <<bdocs, bmetas, blocks, bi>>
    /\ UNCHANGED <<chunkVars, ansVars, ingVars, extVars, uiVars>>

(***************************************************************************)
(* answer_question                                                         *)
(***************************************************************************)
Questions == {"a?", "b a?"}

NoContextMessage == "I couldn't retrieve any relevant context for this question."

\* Exceptions the vector store (client, collection) and the chat call raise.
StoreErrors == {"ConnectionError", "ValueError"}
ChatErrors == {"ResponseError", "ConnectionError"}

\* What collection.query can hand back for n_results = k: up to k
\* distinct chunks, in the store's rank order.
QueryResults(k) ==
    {q \in ChunkSeqs(k) : \A i, j \in 1..Len(q) : i # j => q[i] # q[j]}

\* Shapes of the value chat returns: a dict with message.content, an object
\* with attributes only, an object offering both, and values offering
\* neither (a dict without "message", a dict whose message has no
\* "content", a value that is neither subscriptable nor has .message).
ResponseShapes ==
    {"mapping", "attribute", "both", "mapping_no_message", "mapping_no_content",
     "neither"}
AnswerTexts == {"", "It is b."}
Responses == [shape : ResponseShapes, content : AnswerTexts]
NoResponse == [shape |-> "none", content |-> ""]

SystemPrompt ==
    "You are a clinical-trials assistant. "
    \o "Answer the user's question using ONLY the context given. "
    \o "If the answer is not in the context, say explicitly: "
    \o "'The answer is not available in the provided guidelines.' "
    \o "Cite guideline names or sections when possible, but do not invent facts."

UserPrompt(ctx, q) ==
    "Context from clinical guidelines:\n\n" \o ctx \o "\n\n"
    \o "Question: " \o q \o "\n\n"
    \o "Answer concisely in a few paragraphs."

ChatMessages(ctx, q) ==
    << [role |-> "system", content |-> SystemPrompt],
       [role |-> "user", content |-> UserPrompt(ctx, q)] >>

\* resp["message"]["content"]
SubscriptContent(r) ==
    CASE r.shape \in {"mapping", "both"} ->
             [ok |-> TRUE, value |-> r.content, exc |-> "none"]
      [] r.shape \in {"mapping_no_message", "mapping_no_content"} ->
             [ok |-> FALSE, value |-> "", exc |-> "KeyError"]
      [] OTHER ->
             [ok |-> FALSE, value |-> "", exc |-> "TypeError"]

\* resp.message.content
AttributeContent(r) ==
    IF r.shape \in {"attribute", "both"}
    THEN [ok |-> TRUE, value |-> r.content, exc |-> "none"]
    ELSE [ok |-> FALSE, value |-> "", exc |-> "AttributeError"]

\* mutant of NormalizeResponse: the except clause catches KeyError only
NormalizeResponseKeyErrorOnly(r) ==
    LET first == SubscriptContent(r)
        second == AttributeContent(r)
    IN  IF first.ok \/ first.exc # "KeyError"
        THEN [ok |-> first.ok, value |-> first.value, exc |-> first.exc,
              tried |-> <<"subscript">>]
        ELSE [ok |-> second.ok, value |-> second.value, exc |-> second.exc,
              tried |-> <<"subscript", "attribute">>]

\* try: return resp["message"]["content"]
\* except (TypeError, KeyError): return resp.message.content
NormalizeResponse(r) ==
    LET first == SubscriptContent(r)
        second == AttributeContent(r)
    IN  IF first.ok \/ first.exc \notin {"TypeError", "KeyError"}
        THEN [ok |-> first.ok, value |-> first.value, exc |-> first.exc,
              tried |-> <<"subscript">>]
        ELSE [ok |-> second.ok, value |-> second.value, exc |-> second.exc,
              tried |-> <<"subscript", "attribute">>]

\* mutant of EmptyRetrieval: the short-circuit never taken
EmptyRetrievalNever(ds) == FALSE

\* if not docs
EmptyRetrieval(ds) == Len(ds) = 0

\* How answer_question leaves when a collaborator raises e.  Outcomes are
\* [pc, exc, answer]: the position reached, the exception leaving the call
\* and the string returned.
\* mutant of OnStoreError: the failure is turned into the fallback answer
OnStoreErrorFallback(e) ==
    [pc |-> "returned", exc |-> "none", answer |-> NoContextMessage]

\* get_collection() and retrieve_context() are called outside any try
OnStoreError(e) == [pc |-> "raised", exc |-> e, answer |-> ""]

\* mutant of OnChatError: the failure is turned into an answer
OnChatErrorFallback(e) ==
    [pc |-> "returned", exc |-> "none", answer |-> NoContextMessage]

\* except Exception: logger.exception(...); raise
OnChatError(e) == [pc |-> "raised", exc |-> e, answer |-> ""]

AnswerIdle ==
    /\ query = "" /\ top_k = 0 /\ docs = <<>> /\ metas = <<>>
    /\ context = "" /\ messages = <<>> /\ resp = NoResponse /\ answer = ""
    /\ raisedExc = "none" /\ collabExc = "none" /\ failedAt = "none"
    /\ accesses = <<>>
    /\ connectCalls = 0 /\ queryCalls = 0 /\ chatCalls = 0 /\ apc = "idle"

AnswerStart ==
    /\ query \in Questions /\ top_k \in 1..MaxTopK
    /\ docs = <<>> /\ metas = <<>>
    /\ context = "" /\ messages = <<>> /\ resp = NoResponse /\ answer = ""
    /\ raisedExc = "none" /\ collabExc = "none" /\ failedAt = "none"
    /\ accesses = <<>>
    /\ connectCalls = 0 /\ queryCalls = 0 /\ chatCalls = 0 /\ apc = "call"

\* collection = get_collection(): succeeds
GetCollectionOk ==
    /\ apc = "call"
    /\ connectCalls' = connectCalls + 1
    /\ apc' = "connected"
    /\ UNCHANGED <<query, top_k, docs, metas, context, messages, resp, answer,
                   raisedExc, collabExc, failedAt, accesses, queryCalls, chatCalls>>
    /\ UNCHANGED <<chunkVars, ctxVars, ingVars, extVars, uiVars>>

\* collection = get_collection(): the client, the collection or count() raises
GetCollectionRaises ==
    /\ apc = "call"
    /\ \E e \in StoreErrors :
           /\ collabExc' = e
           /\ raisedExc' = OnStoreError(e).exc
           /\ answer' = OnStoreError(e).answer
           /\ apc' = OnStoreError(e).pc
    /\ failedAt' = "connect"
    /\ connectCalls' = connectCalls + 1
    /\ UNCHANGED <<query, top_k, docs, metas, context, messages, resp,
                   accesses, queryCalls, chatCalls>>
    /\ UNCHANGED <<chunkVars, ctxVars, ingVars, extVars, uiVars>>

\* docs, metas = retrieve_context(collection, query, k=top_k): query answers
RetrieveContextOk ==
    /\ apc = "connected"
    /\ queryCalls' = queryCalls + 1
    /\ \E q \in QueryResults(top_k) : docs' = DocsOf(q) /\ metas' = MetasOf(q)
    /\ apc' = "retrieved"
    /\ UNCHANGED <<query, top_k, context, messages, resp, answer, raisedExc,
                   collabExc, failedAt, accesses, connectCalls, chatCalls>>
    /\ UNCHANGED <<chunkVars, ctxVars, ingVars, extVars, uiVars>>

\* docs, metas = retrieve_context(collection, query, k=top_k): query raises
RetrieveContextRaises ==
    /\ apc = "connected"
    /\ queryCalls' = queryCalls + 1
    /\ \E e \in StoreErrors :
           /\ collabExc' = e
           /\ raisedExc' = OnStoreError(e).exc
           /\ answer' = OnStoreError(e).answer
           /\ apc' = OnStoreError(e).pc
    /\ failedAt' = "query"
    /\ UNCHANGED <<query, top_k, docs, metas, context, messages, resp,
                   accesses, connectCalls, chatCalls>>
    /\ UNCHANGED <<chunkVars, ctxVars, ingVars, extVars, uiVars>>

\* if not docs: return "I couldn't retrieve any relevant context ..."
ReturnNoContext ==
    /\ apc = "retrieved"
    /\ EmptyRetrieval(docs)
    /\ answer' = NoContextMessage
    /\ apc' = "returned"
    /\ UNCHANGED <<query, top_k, docs, metas, context, messages, resp,
                   raisedExc, collabExc, failedAt, accesses,
                   connectCalls, queryCalls, chatCalls>>
    /\ UNCHANGED <<chunkVars, ctxVars, ingVars, extVars, uiVars>>

\* context, prompts and messages are built and chat(...) answers
ChatOk ==
    /\ apc = "retrieved"
    /\ ~EmptyRetrieval(docs)
    /\ context' = BuildContextBlock(docs, metas)
    /\ messages' = ChatMessages(context', query)
    /\ chatCalls' = chatCalls + 1
    /\ resp' \in Responses
    /\ apc' = "chatted"
    /\ UNCHANGED <<query, top_k, docs, metas, answer, raisedExc, collabExc,
                   failedAt, accesses, connectCalls, queryCalls>>
    /\ UNCHANGED <<chunkVars, ctxVars, ingVars, extVars, uiVars>>

\* context, prompts and messages are built and chat(...) raises
ChatRaises ==
    /\ apc = "retrieved"
    /\ ~EmptyRetrieval(docs)
    /\ context' = BuildContextBlock(docs, metas)
    /\ messages' = ChatMessages(context', query)
    /\ chatCalls' = chatCalls + 1
    /\ \E e \in ChatErrors :
           /\ collabExc' = e
           /\ raisedExc' = OnChatError(e).exc
           /\ answer' = OnChatError(e).answer
           /\ apc' = OnChatError(e).pc
    /\ failedAt' = "chat"
    /\ UNCHANGED <<query, top_k, docs, metas, resp, accesses,
                   connectCalls, queryCalls>>
    /\ UNCHANGED <<chunkVars, ctxVars, ingVars, extVars, uiVars>>

\* the answer text is read from the response and returned
ReturnAnswer ==
    /\ apc = "chatted"
    /\ NormalizeResponse(resp).ok
    /\ answer' = NormalizeResponse(resp).value
    /\ accesses' = NormalizeResponse(resp).tried
    /\ apc' = "returned"
    /\ UNCHANGED <<query, top_k, docs, metas, context, messages, resp,
                   raisedExc, collabExc, failedAt,
                   connectCalls, queryCalls, chatCalls>>
    /\ UNCHANGED <<chunkVars, ctxVars, ingVars, extVars, uiVars>>

\* reading the answer text raises
NormalizeRaises ==
    /\ apc = "chatted"
    /\ ~NormalizeResponse(resp).ok
    /\ raisedExc' = NormalizeResponse(resp).exc
    /\ accesses' = NormalizeResponse(resp).tried
    /\ failedAt' = "normalize"
    /\ apc' = "raised"
    /\ UNCHANGED <<query, top_k, docs, metas, context, messages, resp, answer,
                   collabExc, connectCalls, queryCalls, chatCalls>>
    /\ UNCHANGED <<chunkVars, ctxVars, ingVars, extVars, uiVars>>

(***************************************************************************)
(* ingest_pdfs                                                             *)
(***************************************************************************)
\* Stems of the PDFs that may lie in PDF_DIR, in the order sorted() gives
\* their paths ("e9.pdf" < "e9_1.pdf").
SortedStems == <<"e9", "e9_1">>
Stems == {SortedStems[i] : i \in 1..Len(SortedStems)}

\* pdf_path.name
PdfName(stem) == stem \o ".pdf"

\* What page.extract_text() does on a page: returns text, returns None, or
\* raises.
TextPage(t) == [kind |-> "text", text |-> t]
NonePage == [kind |-> "none", text |-> ""]
RaisingPage == [kind |-> "raises", text |-> ""]

\* A PDF of 2202 characters in four pages: "ab" in the first window
\* [0, 1200), nothing but whitespace in the second [1000, 2200), "b" in the
\* third [2000, 2202).
GappedPdf ==
    [readable |-> TRUE,
     pages |-> <<TextPage("ab" \o PyRepeat(" ", 998)), RaisingPage,
                 TextPage(PyRepeat(" ", 1198)), TextPage("b")>>]

\* A PDF of 1205 characters: windows [0, 1200) and [1000, 1205).
TwoWindowPdf ==
    [readable |-> TRUE,
     pages |-> <<TextPage(PyRepeat("ab ", 400)), NonePage, TextPage("a b")>>]

\* A PDF of two pages of nothing but whitespace: space, tab, ogham space
\* mark, and on the second page a no-break space.
BlankPdf ==
    [readable |-> TRUE, pages |-> <<TextPage(" \t "), TextPage(" ")>>]

\* The PDFs tried: a blank one, one whose second window is whitespace-only,
\* one of two windows, one of a single window, and one PdfReader cannot open.
\* A run never reads the text of a PDF from a variable: it looks the PDF up
\* in ChunksOf, which is computed from these definitions.
Documents ==
    { BlankPdf,
      GappedPdf,
      TwoWindowPdf,
      [readable |-> TRUE, pages |-> <<TextPage("b")>>],
      [readable |-> FALSE, pages |-> <<>>] }

\* The states of PDF_DIR: the PDFs present, each with its content.
Directories == UNION {[S -> Documents] : S \in SUBSET Stems}

\* text = page.extract_text() or "" / except Exception: text = ""
ExtractPage(page) == IF page.kind = "text" THEN page.text ELSE ""

\* extract_text_from_pdf: "\n".join of the page texts
ExtractText(pages) ==
    PyJoin("\n", [i \in 1..Len(pages) |-> ExtractPage(pages[i])])

\* mutant of ChunkId: the stem is left out of the id
ChunkIdNoStem(stem, idx) == "chunk_" \o ToString(idx)

\* cid = f"{pdf_path.stem}_{idx}"
ChunkId(stem, idx) == stem \o "_" \o ToString(idx)

\* for idx, chunk in enumerate(chunks): the (id, document, metadata) entries
\* mutant of DocEntries: chunk indices continue after the collection's count
DocEntriesAfterCount(stem, cks) ==
    LET n == Cardinality(DOMAIN store)
    IN  [i \in 1..Len(cks) |->
            [id |-> ChunkId(stem, n + i - 1),
             doc |-> cks[i],
             meta |-> [source |-> PdfName(stem), chunk_index |-> n + i - 1]]]

DocEntries(stem, cks) ==
    [i \in 1..Len(cks) |->
        [id |-> ChunkId(stem, i - 1),
         doc |-> cks[i],
         meta |-> [source |-> PdfName(stem), chunk_index |-> i - 1]]]

\* sorted(PDF_DIR.glob("*.pdf"))
SortedPdfs(dir) ==
    SelectSeq(SortedStems, LAMBDA st : st \in DOMAIN dir)

\* What the collection does on add of an id it holds: keeps the old entry
\* ("ignore") or takes the new one ("overwrite"); it never holds an id twice.
StoreModes == {"ignore", "overwrite"}

\* collection.add(ids=..., documents=..., metadatas=...)
StoreAdd(st, ids, ds, ms, mode) ==
    LET new == {ids[i] : i \in 1..Len(ids)}
        at(id) == CHOOSE i \in 1..Len(ids) : ids[i] = id
    IN  [id \in (DOMAIN st) \cup new |->
            IF id \in DOMAIN st /\ (mode = "ignore" \/ id \notin new)
            THEN st[id]
            ELSE [document |-> ds[at(id)], metadata |-> ms[at(id)]]]

\* mutant of NoChunks: an empty batch is not noticed
NoChunksNever(ds) == FALSE

\* if not all_docs
NoChunks(ds) == Len(ds) = 0

\* mutant of LoopFinished: what follows the loop runs after the first PDF
LoopFinishedEarly(d, files) == d >= 1

\* the statements after `for pdf_path in pdf_files` run once the loop has
\* consumed every PDF
LoopFinished(d, files) == d = Len(files)

EmptyStore == [id \in {} |-> [document |-> "", metadata |-> <<>>]]

\* print("!! No chunks to add"): what a run reports before it returns
\* without calling add
NoChunksReport == "!! No chunks to add"

\* no run precedes the first one
NoPrev == [unchanged |-> FALSE, outcome |-> "none"]


IngestIdle ==
    /\ dirExists = FALSE /\ pdfs = <<>> /\ storeMode = "ignore"
    /\ store = EmptyStore /\ store0 = EmptyStore
    /\ pdf_files = <<>> /\ di = 0
    /\ all_ids = <<>> /\ all_docs = <<>> /\ all_metas = <<>>
    /\ addCalls = 0 /\ outcome = "none" /\ ipc = "idle"
    /\ prev = NoPrev

\* First run: a fresh collection.
IngestStart ==
    /\ dirExists \in BOOLEAN
    /\ pdfs \in Directories
    /\ (~dirExists => pdfs = <<>>)
    /\ storeMode \in StoreModes
    /\ store = EmptyStore /\ store0 = EmptyStore
    /\ pdf_files = <<>> /\ di = 0
    /\ all_ids = <<>> /\ all_docs = <<>> /\ all_metas = <<>>
    /\ addCalls = 0 /\ outcome = "none" /\ ipc = "call"
    /\ prev = NoPrev

\* if not PDF_DIR.exists(): return
IngestNoDir ==
    /\ ipc = "call"
    /\ ~dirExists
    /\ outcome' = "no_dir"
    /\ ipc' = "done"
    /\ UNCHANGED <<dirExists, pdfs, storeMode, store, store0, pdf_files, di,
                   all_ids, all_docs, all_metas, addCalls>>
    /\ UNCHANGED prev
    /\ UNCHANGED <<chunkVars, ctxVars, ansVars, extVars, uiVars>>

\* pdf_files = sorted(...); if not pdf_files: return
IngestNoPdfs ==
    /\ ipc = "call"
    /\ dirExists
    /\ SortedPdfs(pdfs) = <<>>
    /\ pdf_files' = <<>>
    /\ outcome' = "no_pdfs"
    /\ ipc' = "done"
    /\ UNCHANGED <<dirExists, pdfs, storeMode, store, store0, di,
                   all_ids, all_docs, all_metas, addCalls>>
    /\ UNCHANGED prev
    /\ UNCHANGED <<chunkVars, ctxVars, ansVars, extVars, uiVars>>

\* PDFs found; build_client_and_collection() succeeds; accumulators emptied
IngestConnect ==
    /\ ipc = "call"
    /\ dirExists
    /\ SortedPdfs(pdfs) # <<>>
    /\ pdf_files' = SortedPdfs(pdfs)
    /\ all_ids' = <<>> /\ all_docs' = <<>> /\ all_metas' = <<>>
    /\ di' = 0
    /\ ipc' = "loop"
    /\ UNCHANGED <<dirExists, pdfs, storeMode, store, store0, addCalls, outcome>>
    /\ UNCHANGED prev
    /\ UNCHANGED <<chunkVars, ctxVars, ansVars, extVars, uiVars>>

\* PDFs found; build_client_and_collection() raises
IngestConnectRaises ==
    /\ ipc = "call"
    /\ dirExists
    /\ SortedPdfs(pdfs) # <<>>
    /\ pdf_files' = SortedPdfs(pdfs)
    /\ outcome' = "raised_connect"
    /\ ipc' = "raised"
    /\ UNCHANGED <<dirExists, pdfs, storeMode, store, store0, di,
                   all_ids, all_docs, all_metas, addCalls>>
    /\ UNCHANGED prev
    /\ UNCHANGED <<chunkVars, ctxVars, ansVars, extVars, uiVars>>

\* For each PDF tried, what lines 78-83 compute from it:
\* chunk_text(extract_text_from_pdf(pdf_path), chunk_size=CHUNK_SIZE,
\* overlap=OVERLAP), evaluated once per PDF
ChunksOf ==
    [d \in Documents |->
        ChunkText(ExtractText(d.pages), CHUNK_SIZE, OVERLAP)]

\* one pass through the body of `for pdf_path in pdf_files`: extract,
\* chunk, and append an entry per chunk
IngestDocument ==
    /\ ipc = "loop"
    /\ di < Len(pdf_files)
    /\ pdfs[pdf_files[di + 1]].readable
    /\ LET stem == pdf_files[di + 1]
           cks == ChunksOf[pdfs[stem]]
           ents == DocEntries(stem, cks)
       IN  /\ all_ids' = all_ids \o [i \in 1..Len(ents) |-> ents[i].id]
           /\ all_docs' = all_docs \o [i \in 1..Len(ents) |-> ents[i].doc]
           /\ all_metas' = all_metas \o [i \in 1..Len(ents) |-> ents[i].meta]
    /\ di' = di + 1
    /\ UNCHANGED <<dirExists, pdfs, storeMode, store, store0, pdf_files,
                   addCalls, outcome, ipc>>
    /\ UNCHANGED prev
    /\ UNCHANGED <<chunkVars, ctxVars, ansVars, extVars, uiVars>>

\* PdfReader(str(pdf_path)) raises on a file it cannot open: the exception
\* leaves extract_text_from_pdf and ingest_pdfs
IngestDocumentRaises ==
    /\ ipc = "loop"
    /\ di < Len(pdf_files)
    /\ ~pdfs[pdf_files[di + 1]].readable
    /\ outcome' = "raised_extract"
    /\ ipc' = "raised"
    /\ UNCHANGED <<dirExists, pdfs, storeMode, store, store0, pdf_files, di,
                   all_ids, all_docs, all_metas, addCalls>>
    /\ UNCHANGED prev
    /\ UNCHANGED <<chunkVars, ctxVars, ansVars, extVars, uiVars>>

\* if not all_docs: print("!! No chunks to add"); return
IngestNoChunks ==
    /\ ipc = "loop"
    /\ LoopFinished(di, pdf_files)
    /\ NoChunks(all_docs)
    /\ outcome' = NoChunksReport
    /\ ipc' = "done"
    /\ UNCHANGED <<dirExists, pdfs, storeMode, store, store0, pdf_files, di,
                   all_ids, all_docs, all_metas, addCalls>>
    /\ UNCHANGED prev
    /\ UNCHANGED <<chunkVars, ctxVars, ansVars, extVars, uiVars>>

\* collection.add(ids=all_ids, documents=all_docs, metadatas=all_metas)
\* returns
IngestAdd ==
    /\ ipc = "loop"
    /\ LoopFinished(di, pdf_files)
    /\ ~NoChunks(all_docs)
    /\ store' = StoreAdd(store, all_ids, all_docs, all_metas, storeMode)
    /\ addCalls' = addCalls + 1
    /\ ipc' = "report"
    /\ UNCHANGED <<dirExists, pdfs, storeMode, store0, pdf_files, di,
                   all_ids, all_docs, all_metas, outcome>>
    /\ UNCHANGED prev
    /\ UNCHANGED <<chunkVars, ctxVars, ansVars, extVars, uiVars>>

\* the two prints after add, the second with collection.count(); the
\* function returns
IngestReport ==
    /\ ipc = "report"
    /\ outcome' = "added"
    /\ ipc' = "done"
    /\ UNCHANGED <<dirExists, pdfs, storeMode, store, store0, pdf_files, di,
                   all_ids, all_docs, all_metas, addCalls>>
    /\ UNCHANGED prev
    /\ UNCHANGED <<chunkVars, ctxVars, ansVars, extVars, uiVars>>

\* a print after add raises (the check mark on a console that cannot encode
\* it), or collection.count() does: the exception leaves ingest_pdfs with
\* the chunks added
IngestReportRaises ==
    /\ ipc = "report"
    /\ outcome' = "raised_report"
    /\ ipc' = "raised"
    /\ UNCHANGED <<dirExists, pdfs, storeMode, store, store0, pdf_files, di,
                   all_ids, all_docs, all_metas, addCalls>>
    /\ UNCHANGED prev
    /\ UNCHANGED <<chunkVars, ctxVars, ansVars, extVars, uiVars>>

\* collection.add(...) raises (store or embedding backend): nothing stored
IngestAddRaises ==
    /\ ipc = "loop"
    /\ LoopFinished(di, pdf_files)
    /\ ~NoChunks(all_docs)
    /\ addCalls' = addCalls + 1
    /\ outcome' = "raised_add"
    /\ ipc' = "raised"
    /\ UNCHANGED <<dirExists, pdfs, storeMode, store, store0, pdf_files, di,
                   all_ids, all_docs, all_metas>>
    /\ UNCHANGED prev
    /\ UNCHANGED <<chunkVars, ctxVars, ansVars, extVars, uiVars>>

\* The operator runs ingest_pdfs again, PDF_DIR possibly having changed
\* since the last run; the collection persists.
IngestAgain ==
    /\ ipc \in {"done", "raised"}
    /\ dirExists' \in BOOLEAN
    /\ pdfs' \in Directories
    /\ (~dirExists' => pdfs' = <<>>)
    /\ store0' = store
    /\ prev' = [unchanged |-> (pdfs' = pdfs), outcome |-> outcome]
    /\ pdf_files' = <<>> /\ di' = 0
    /\ all_ids' = <<>> /\ all_docs' = <<>> /\ all_metas' = <<>>
    /\ addCalls' = 0 /\ outcome' = "none" /\ ipc' = "call"
    /\ UNCHANGED <<storeMode, store>>
    /\ UNCHANGED <<chunkVars, ctxVars, ansVars, extVars, uiVars>>

(***************************************************************************)
(* extract_text_from_pdf, pass by pass                                     *)
(***************************************************************************)
MaxPages == 3

\* what page.extract_text() may do: give text, give None, or raise
PageOutcomes ==
    {TextPage("a"), TextPage("b c"), TextPage(""), NonePage, RaisingPage}

PageSeqs == UNION {[1..n -> PageOutcomes] : n \in 0..MaxPages}

\* the PDFs given to extract_text_from_pdf: any page sequence, or a file
\* PdfReader cannot open
ExtractInputs ==
    {[readable |-> TRUE, pages |-> ps] : ps \in PageSeqs}
        \cup {[readable |-> FALSE, pages |-> <<>>]}

NoPdf == [readable |-> FALSE, pages |-> <<>>]

\* mutant of OnPageError: the failed page leaves no entry
OnPageErrorSkip(ts) == ts

\* except Exception: text = ""; texts.append(text)
OnPageError(ts) == Append(ts, "")

\* extract_text_from_pdf not in use
ExtractIdle ==
    /\ pdf = NoPdf /\ texts = <<>> /\ pg = 0
    /\ joined_text = "" /\ logged = <<>> /\ epc = "idle"

ExtractStart ==
    /\ pdf \in ExtractInputs
    /\ texts = <<>> /\ pg = 0
    /\ joined_text = "" /\ logged = <<>> /\ epc = "call"

\* reader = PdfReader(str(pdf_path)); texts = []
ExtractOpen ==
    /\ epc = "call"
    /\ pdf.readable
    /\ texts' = <<>>
    /\ pg' = 0
    /\ epc' = "loop"
    /\ UNCHANGED <<pdf, joined_text, logged>>
    /\ UNCHANGED <<chunkVars, ctxVars, ansVars, ingVars, uiVars>>

\* PdfReader(...) raises: outside the try, the call ends in the exception
ExtractOpenRaises ==
    /\ epc = "call"
    /\ ~pdf.readable
    /\ epc' = "raised"
    /\ UNCHANGED <<pdf, texts, pg, joined_text, logged>>
    /\ UNCHANGED <<chunkVars, ctxVars, ansVars, ingVars, uiVars>>

\* one pass of the for loop in which page.extract_text() returns
ExtractPageOk ==
    /\ epc = "loop"
    /\ pg < Len(pdf.pages)
    /\ pdf.pages[pg + 1].kind # "raises"
    /\ texts' = Append(texts, ExtractPage(pdf.pages[pg + 1]))
    /\ pg' = pg + 1
    /\ UNCHANGED <<pdf, joined_text, logged, epc>>
    /\ UNCHANGED <<chunkVars, ctxVars, ansVars, ingVars, uiVars>>

\* one pass of the for loop in which page.extract_text() raises
ExtractPageFails ==
    /\ epc = "loop"
    /\ pg < Len(pdf.pages)
    /\ pdf.pages[pg + 1].kind = "raises"
    /\ logged' = Append(logged, pg)
    /\ texts' = OnPageError(texts)
    /\ pg' = pg + 1
    /\ UNCHANGED <<pdf, joined_text, epc>>
    /\ UNCHANGED <<chunkVars, ctxVars, ansVars, ingVars, uiVars>>

\* joined_text = "\n".join(texts); return joined_text
ExtractReturn ==
    /\ epc = "loop"
    /\ pg = Len(pdf.pages)
    /\ joined_text' = PyJoin("\n", texts)
    /\ epc' = "done"
    /\ UNCHANGED <<pdf, texts, pg, logged>>
    /\ UNCHANGED <<chunkVars, ctxVars, ansVars, ingVars, uiVars>>

(***************************************************************************)
(* The chat page of app.py: one script run per interaction                 *)
(***************************************************************************)
MaxQuestions == 3

\* what answer_question returns to the page
AnswerResults == {NoContextMessage} \cup AnswerTexts

\* what answer_question raises to the page, each standing for its str()
AnswerErrors == StoreErrors \cup ChatErrors \cup {"AttributeError"}

Turn(role, content) == [role |-> role, content |-> content]

\* the grave accent that encloses {e} in the message; a TLA+ string cannot
\* hold that character, an apostrophe stands for it
Tick == "'"

\* f"Error while generating answer: {e}", with {e} between grave accents
ErrorMessage(e) == "Error while generating answer: " \o Tick \o e \o Tick

\* mutant of StoreTurn: the new turn replaces the history
StoreTurnReplace(h, role, content) == <<Turn(role, content)>>

\* st.session_state.history.append({"role": ..., "content": ...})
StoreTurn(h, role, content) == Append(h, Turn(role, content))

\* the page is not in use
ChatIdle ==
    /\ history = <<>> /\ user_input = "" /\ ui_answer = ""
    /\ shown = <<>> /\ lastExc = "none" /\ asked = 0 /\ upc = "off"

\* a new session: st.session_state.history = []
ChatStart ==
    /\ history = <<>> /\ user_input = "" /\ ui_answer = ""
    /\ shown = <<>> /\ lastExc = "none" /\ asked = 0 /\ upc = "idle"

\* a script run begins: nothing is rendered yet
ChatRunStart ==
    /\ upc = "idle"
    /\ shown' = <<>>
    /\ upc' = "render"
    /\ UNCHANGED <<history, user_input, ui_answer, lastExc, asked>>
    /\ UNCHANGED <<chunkVars, ctxVars, ansVars, ingVars, extVars>>

\* for msg in st.session_state.history: one stored message is rendered
\* (st.chat_message, st.markdown)
ChatRenderStep ==
    /\ upc = "render"
    /\ Len(shown) < Len(history)
    /\ shown' = Append(shown, history[Len(shown) + 1])
    /\ UNCHANGED <<history, user_input, ui_answer, lastExc, asked, upc>>
    /\ UNCHANGED <<chunkVars, ctxVars, ansVars, ingVars, extVars>>

\* the history is rendered and st.chat_input returns nothing: the run ends
ChatRerunNoInput ==
    /\ upc = "render"
    /\ Len(shown) = Len(history)
    /\ user_input' = ""
    /\ lastExc' = "none"
    /\ upc' = "idle"
    /\ UNCHANGED <<history, ui_answer, shown, asked>>
    /\ UNCHANGED <<chunkVars, ctxVars, ansVars, ingVars, extVars>>

\* the history is rendered and st.chat_input returns a question: the user
\* turn is appended (line 212)
ChatSubmit ==
    /\ upc = "render"
    /\ Len(shown) = Len(history)
    /\ asked < MaxQuestions
    /\ \E q \in Questions :
        /\ user_input' = q
        /\ history' = StoreTurn(history, "user", q)
    /\ lastExc' = "none"
    /\ asked' = asked + 1
    /\ upc' = "stored"
    /\ UNCHANGED <<ui_answer, shown>>
    /\ UNCHANGED <<chunkVars, ctxVars, ansVars, ingVars, extVars>>

\* with st.chat_message("user"): st.markdown(user_input)
ChatShowQuestion ==
    /\ upc = "stored"
    /\ shown' = Append(shown, Turn("user", user_input))
    /\ upc' = "asked"
    /\ UNCHANGED <<history, user_input, ui_answer, lastExc, asked>>
    /\ UNCHANGED <<chunkVars, ctxVars, ansVars, ingVars, extVars>>

\* answer = answer_question(user_input, ...) returns
ChatAnswerOk ==
    /\ upc = "asked"
    /\ \E a \in AnswerResults : ui_answer' = a
    /\ upc' = "answered"
    /\ UNCHANGED <<history, user_input, shown, lastExc, asked>>
    /\ UNCHANGED <<chunkVars, ctxVars, ansVars, ingVars, extVars>>

\* answer_question raises: except Exception as e: answer = f"Error ..."
ChatAnswerRaises ==
    /\ upc = "asked"
    /\ \E e \in AnswerErrors :
        /\ lastExc' = e
        /\ ui_answer' = ErrorMessage(e)
    /\ upc' = "answered"
    /\ UNCHANGED <<history, user_input, shown, asked>>
    /\ UNCHANGED <<chunkVars, ctxVars, ansVars, ingVars, extVars>>

\* st.markdown(answer)
ChatShowAnswer ==
    /\ upc = "answered"
    /\ shown' = Append(shown, Turn("assistant", ui_answer))
    /\ upc' = "shown"
    /\ UNCHANGED <<history, user_input, ui_answer, lastExc, asked>>
    /\ UNCHANGED <<chunkVars, ctxVars, ansVars, ingVars, extVars>>

\* Streamlit stops the script run at an st.* call (the user submitted
\* again, touched a widget or pressed Stop): while the stored history is
\* rendered or st.chat_input is reached, at lines 213-214 with the user turn
\* stored and not yet rendered, at lines 217-218, or at st.markdown(answer).
\* The exception it raises there is not an Exception, the except clause does
\* not catch it, and the rest of the script, line 233 included, is not run.
ChatStopped ==
    /\ upc \in {"render", "stored", "asked", "answered"}
    /\ upc' = "idle"
    /\ UNCHANGED <<history, user_input, ui_answer, shown, lastExc, asked>>
    /\ UNCHANGED <<chunkVars, ctxVars, ansVars, ingVars, extVars>>

\* st.session_state.history.append({"role": "assistant", "content": answer})
ChatStoreAnswer ==
    /\ upc = "shown"
    /\ history' = StoreTurn(history, "assistant", ui_answer)
    /\ upc' = "idle"
    /\ UNCHANGED <<user_input, ui_answer, shown, lastExc, asked>>
    /\ UNCHANGED <<chunkVars, ctxVars, ansVars, ingVars, extVars>>

(***************************************************************************)
(* Specifications: one per entry point                                     *)
(***************************************************************************)
ContextInit == ChunkIdle /\ ContextStart /\ AnswerIdle /\ IngestIdle /\ ExtractIdle
        /\ ChatIdle

ContextNext == ContextEnter \/ ContextStep \/ ContextReturn

SpecContext == ContextInit /\ [][ContextNext]_vars

AnswerInit == ChunkIdle /\ ContextIdle /\ AnswerStart /\ IngestIdle /\ ExtractIdle
        /\ ChatIdle

AnswerNext ==
    \/ GetCollectionOk \/ GetCollectionRaises
    \/ RetrieveContextOk \/ RetrieveContextRaises
    \/ ReturnNoContext \/ ChatOk \/ ChatRaises
    \/ ReturnAnswer \/ NormalizeRaises

SpecAnswer == AnswerInit /\ [][AnswerNext]_vars

IngestInit == ChunkIdle /\ ContextIdle /\ AnswerIdle /\ IngestStart /\ ExtractIdle
        /\ ChatIdle

IngestNext ==
    \/ IngestNoDir \/ IngestNoPdfs \/ IngestConnect \/ IngestConnectRaises
    \/ IngestDocument \/ IngestDocumentRaises
    \/ IngestNoChunks \/ IngestAdd \/ IngestAddRaises
    \/ IngestReport \/ IngestReportRaises
    \/ IngestAgain

SpecIngest == IngestInit /\ [][IngestNext]_vars
ChunkInit == ChunkStart /\ ContextIdle /\ AnswerIdle /\ IngestIdle /\ ExtractIdle
        /\ ChatIdle

ChunkNext == ChunkEnter \/ ChunkStep \/ ChunkReturn

SpecChunk == ChunkInit /\ [][ChunkNext]_vars

ExtractInit ==
    ChunkIdle /\ ContextIdle /\ AnswerIdle /\ IngestIdle /\ ExtractStart
        /\ ChatIdle

ExtractNext ==
    \/ ExtractOpen
    \/ ExtractOpenRaises
    \/ ExtractPageOk
    \/ ExtractPageFails
    \/ ExtractReturn

SpecExtract == ExtractInit /\ [][ExtractNext]_vars

ChatInit ==
    ChunkIdle /\ ContextIdle /\ AnswerIdle /\ IngestIdle /\ ExtractIdle
        /\ ChatStart

ChatNext ==
    \/ ChatRunStart
    \/ ChatRenderStep
    \/ ChatRerunNoInput
    \/ ChatSubmit
    \/ ChatShowQuestion
    \/ ChatAnswerOk
    \/ ChatAnswerRaises
    \/ ChatShowAnswer
    \/ ChatStopped
    \/ ChatStoreAnswer

SpecChat == ChatInit /\ [][ChatNext]_vars

\* chunk_text runs on its own thread of control: a call that can take a step
\* takes it.
SpecChunkFair == ChunkInit /\ [][ChunkNext]_vars /\ WF_vars(ChunkNext)

(***************************************************************************)
(* Properties of chunk_text                                                *)
(***************************************************************************)
ValidConfig == chunk_size > overlap /\ overlap >= 0

NonBlank(s) == \E i \in 1..Len(s) : SubSeq(s, i, i) \notin Whitespace

\* a text with whitespace outside ASCII: "a", ogham space mark, no-break
\* space, ogham space mark, "b"
UnicodeText == "a   b"

\* a three-character text with whitespace outside ASCII at both ends
UnicodeShortText == " a "

\* the thirteen whitespace characters, one after the other
AllWhitespaceText == " \n\t\r\f  "

\* text positions (0-based) lying in a scanned window
WindowPositions(w) == {p \in 0..(Len(text) - 1) : w.start <= p /\ p < w.end}

SharedPositions(i) ==
    Cardinality(WindowPositions(windows[i]) \cap WindowPositions(windows[i + 1]))

\* C2 (as stated): with chunk_size <= overlap the call ends in an
\* InvalidConfiguration error without scanning a window or emitting a chunk;
\* so a call that has scanned a window, or has returned, is in that error.
C2_ConfigGuard ==
    (chunk_size <= overlap /\ (windows # <<>> \/ cpc = "done"))
        => (cpc = "InvalidConfiguration" /\ chunks = <<>>)

\* C3 (as stated): a non-blank text shorter than chunk_size yields exactly
\* one chunk, the whole text trimmed of leading/trailing whitespace.
C3_ShortTextOneTrimmedChunk ==
    (cpc = "done" /\ ValidConfig /\ Len(text) < chunk_size /\ NonBlank(text))
        => chunks = <<PyStrip(text)>>

\* C3 (amended): a non-blank text shorter than chunk_size yields the whole
\* text, untrimmed, as its first chunk; it is the only chunk when
\* len(text) <= chunk_size - overlap, and otherwise it is followed by
\* exactly the later windows text[k*(chunk_size-overlap):], k = 1, 2, ...
\* while k*(chunk_size-overlap) < len(text), that are not whitespace-only,
\* in increasing order of k.  Whitespace outside ASCII at the ends of the
\* text is kept like any other.
C3_ShortTextWholeFirst ==
    (cpc = "done" /\ ValidConfig /\ Len(text) < chunk_size /\ NonBlank(text))
        => LET n == Len(text)
               s == chunk_size - overlap
               m == Cardinality({k \in 1..n : k * s < n})
               later == [k \in 1..m |-> SubSeq(text, k * s + 1, n)]
           IN  /\ chunks = <<text>> \o SelectSeq(later, NonBlank)
               /\ (n <= s => chunks = <<text>>)
               /\ ChunkText(UnicodeShortText, 4, 3)
                      = <<UnicodeShortText, SubSeq(UnicodeShortText, 2, 3)>>

\* C3 witness: a short text that ends in a tab, chunked into the untrimmed
\* text plus a later suffix window, a whitespace-only suffix having been
\* dropped.
C3_Witness ==
    /\ cpc = "done" /\ ValidConfig
    /\ Len(text) < chunk_size /\ NonBlank(text)
    /\ SubSeq(text, Len(text), Len(text)) = "\t"
    /\ PyStrip(text) # text
    /\ Len(chunks) = 2 /\ Len(windows) = 3
    /\ chunks[1] = text

\* C4 (as stated): the scanned windows cover every position of the text and
\* each two consecutive scanned windows share exactly `overlap` characters.
C4_CoverageExactOverlap ==
    (cpc = "done" /\ ValidConfig)
        => /\ UNION {WindowPositions(windows[i]) : i \in 1..Len(windows)}
                  = 0..(Len(text) - 1)
           /\ \A i \in 1..(Len(windows) - 1) : SharedPositions(i) = overlap

\* C4 (amended): the scanned windows cover every position of the text; two
\* consecutive scanned windows share exactly `overlap` characters when the
\* earlier one is not cut short by the end of the text, and otherwise share
\* the whole later window, len(text) - start characters, fewer than overlap.
C4_CoverageOverlapUntilEnd ==
    (cpc = "done" /\ ValidConfig)
        => /\ UNION {WindowPositions(windows[i]) : i \in 1..Len(windows)}
                  = 0..(Len(text) - 1)
           /\ \A i \in 1..(Len(windows) - 1) :
                  IF windows[i].end <= Len(text)
                  THEN SharedPositions(i) = overlap
                  ELSE /\ SharedPositions(i) = Len(text) - windows[i + 1].start
                       /\ SharedPositions(i) < overlap

\* C4 witness: a finished scan of three or more windows with a positive
\* overlap, one pair sharing exactly `overlap`, the last pair sharing less.
C4_Witness ==
    /\ cpc = "done" /\ ValidConfig /\ overlap > 0
    /\ Len(windows) >= 3
    /\ SharedPositions(1) = overlap
    /\ SharedPositions(Len(windows) - 1) < overlap

(***************************************************************************)
(* Properties of build_context_block                                       *)
(***************************************************************************)
\* the header line expected for the i-th chunk given to build_context_block
ExpectedHeader(i) ==
    "[Source: " \o bmetas[i].source \o " | chunk "
        \o ToString(bmetas[i].chunk_index) \o "]"

\* the offset in the result at which the i-th block is expected to begin:
\* after the earlier blocks (header, newline, text) and one blank line each
RECURSIVE ExpectedOffset(_)
ExpectedOffset(i) ==
    IF i = 1 THEN 0
    ELSE ExpectedOffset(i - 1) + Len(ExpectedHeader(i - 1)) + 1
             + Len(bdocs[i - 1]) + 2

\* C8: build_context_block returns one block per chunk, in the order
\* received, each the header line `[Source: <source> | chunk <index>]`
\* followed by the chunk's raw text, consecutive blocks separated by exactly
\* one blank line; for an empty sequence it returns the empty string.
C8_ContextBlockLayout ==
    bpc = "done" =>
        LET n == Len(bdocs)
        IN  /\ (n = 0 => bcontext = "")
            /\ (n > 0 => Len(bcontext) = ExpectedOffset(n) + Len(ExpectedHeader(n))
                                             + 1 + Len(bdocs[n]))
            /\ \A i \in 1..n :
                   LET o == ExpectedOffset(i)
                       h == Len(ExpectedHeader(i))
                       d == Len(bdocs[i])
                   IN  /\ SubSeq(bcontext, o + 1, o + h) = ExpectedHeader(i)
                       /\ SubSeq(bcontext, o + h + 1, o + h + 1) = "\n"
                       /\ SubSeq(bcontext, o + h + 2, o + h + 1 + d) = bdocs[i]
                       /\ (i < n =>
                             SubSeq(bcontext, o + h + d + 2, o + h + d + 3) = "\n\n")

\* C8 witness: chunks 3 and 7 of ich_e9.pdf, in that order, formatted.
C8_Witness ==
    /\ bpc = "done"
    /\ bmetas = << [source |-> "ich_e9.pdf", chunk_index |-> 3],
                   [source |-> "ich_e9.pdf", chunk_index |-> 7] >>
    /\ bcontext = "[Source: ich_e9.pdf | chunk 3]\nab a\n\n"
                      \o "[Source: ich_e9.pdf | chunk 7]\nb\nb"

(***************************************************************************)
(* Properties of answer_question                                           *)
(***************************************************************************)
\* C1: when the store's query returns no documents, answer_question returns
\* the fixed fallback message and chat is called zero times.
C1_EmptyContextShortCircuit ==
    (queryCalls = 1 /\ failedAt # "query" /\ docs = <<>>)
        => /\ chatCalls = 0
           /\ messages = <<>>
           /\ (apc # "retrieved" =>
                  /\ apc = "returned"
                  /\ answer = NoContextMessage
                  /\ raisedExc = "none")

\* C1 witness: a call that returned after an empty retrieval.
C1_Witness ==
    /\ apc = "returned" /\ queryCalls = 1 /\ docs = <<>>
    /\ answer = NoContextMessage /\ chatCalls = 0

\* C5: a response carrying the answer text T in mapping-style form, and one
\* carrying it in attribute-style form, both make answer_question return
\* exactly T; the mapping access is tried first, the attribute access is the
\* fallback.
C5_ResponseShapeNormalized ==
    (apc \in {"returned", "raised"} /\ resp.shape \in {"mapping", "attribute"})
        => /\ apc = "returned"
           /\ answer = resp.content
           /\ raisedExc = "none"
           /\ accesses = IF resp.shape = "mapping"
                         THEN <<"subscript">>
                         ELSE <<"subscript", "attribute">>

\* C5 witness: an attribute-style response, read through the fallback.
C5_Witness ==
    /\ apc = "returned" /\ resp.shape = "attribute"
    /\ resp.content # "" /\ answer = resp.content
    /\ accesses = <<"subscript", "attribute">>

\* C6: when chat raises, the same exception reaches the caller, no answer
\* is returned and chat has been called exactly once.
C6_ChatFailurePropagates ==
    failedAt = "chat"
        => /\ apc = "raised"
           /\ collabExc \in ChatErrors
           /\ raisedExc = collabExc
           /\ answer = ""
           /\ chatCalls = 1

\* C6 witness: a call ended by chat's ResponseError.
C6_Witness ==
    /\ failedAt = "chat" /\ apc = "raised" /\ chatCalls = 1
    /\ collabExc = "ResponseError" /\ raisedExc = "ResponseError"

\* C7: when connecting to or querying the store raises, the same exception
\* reaches the caller, no answer (fallback or generated) is returned, the
\* store is not queried again and chat is never called.
C7_StoreFailurePropagates ==
    failedAt \in {"connect", "query"}
        => /\ apc = "raised"
           /\ collabExc \in StoreErrors
           /\ raisedExc = collabExc
           /\ answer = ""
           /\ connectCalls = 1
           /\ queryCalls = (IF failedAt = "query" THEN 1 ELSE 0)
           /\ chatCalls = 0

\* C7 witness: a call ended by the query's ConnectionError.
C7_Witness ==
    /\ failedAt = "query" /\ apc = "raised" /\ queryCalls = 1
    /\ collabExc = "ConnectionError" /\ raisedExc = "ConnectionError"

(***************************************************************************)
(* Properties of ingest_pdfs                                               *)
(***************************************************************************)
\* the (source, chunk_index) pair of a stored chunk
StoredPair(id) ==
    <<store[id].metadata.source, store[id].metadata.chunk_index>>

\* C9 (as stated): after any sequence of ingestion runs, no two stored
\* chunks share a (source, chunk_index) pair, and no add of an id the
\* collection already held is shadowed by, or replaces, a chunk with
\* different content.
C9_NoSilentCollision ==
    /\ \A id1, id2 \in DOMAIN store :
           id1 # id2 => StoredPair(id1) # StoredPair(id2)
    /\ outcome = "added" =>
           \A i \in 1..Len(all_ids) :
               all_ids[i] \in DOMAIN store0 =>
                   /\ store[all_ids[i]].document = all_docs[i]
                   /\ store[all_ids[i]].document = store0[all_ids[i]].document

\* positions of the accumulators holding the chunks of one PDF
EntriesOf(stem) ==
    SelectSeq([i \in 1..Len(all_metas) |-> i],
              LAMBDA i : all_metas[i].source = stem \o ".pdf")

\* C10: within one batch each document's chunks get chunk_index 0, 1, ...,
\* m-1 in emission order and id "<stem>_<chunk_index>"; ids of documents
\* with distinct stems are disjoint, so the ids given to add are pairwise
\* distinct.
C10_BatchIdsDistinct ==
    /\ Len(all_ids) = Len(all_docs) /\ Len(all_docs) = Len(all_metas)
    /\ \A i \in 1..Len(all_metas) :
           \E k \in 1..di : all_metas[i].source = pdf_files[k] \o ".pdf"
    /\ \A k \in 1..di :
           LET pos == EntriesOf(pdf_files[k])
           IN  \A j \in 1..Len(pos) :
                   /\ all_metas[pos[j]].chunk_index = j - 1
                   /\ all_ids[pos[j]] = pdf_files[k] \o "_" \o ToString(j - 1)
    /\ \A i, j \in 1..Len(all_ids) :
           all_metas[i].source # all_metas[j].source => all_ids[i] # all_ids[j]
    /\ \A i, j \in 1..Len(all_ids) : i # j => all_ids[i] # all_ids[j]

\* C10 witness: a batch of two PDFs given to add, one of them with a
\* whitespace-only window dropped between its chunks 0 and 1.
C10_Witness ==
    /\ ipc = "done" /\ outcome = "added"
    /\ Len(pdf_files) = 2
    /\ all_ids = <<"e9_0", "e9_1", "e9_1_0">>
    /\ Len(all_docs[1]) = CHUNK_SIZE /\ SubSeq(all_docs[1], 1, 3) = "ab "
    /\ all_docs[2] = PyRepeat(" ", 200) \o "\nb"

\* whether every PDF of the batch has been read and chunk_text made no chunk
\* of any of them
BatchAllBlank ==
    /\ pdf_files # <<>>
    /\ di = Len(pdf_files)
    /\ \A k \in 1..Len(pdf_files) :
           /\ pdfs[pdf_files[k]].readable
           /\ ChunksOf[pdfs[pdf_files[k]]] = <<>>

\* C11: if every document of a batch produces zero chunks, the run leaves
\* the collection untouched (add never called, contents unchanged) and says
\* that nothing was ingested: it returns normally and the last line it
\* printed is "!! No chunks to add".
C11_EmptyBatchLeavesStore ==
    (BatchAllBlank /\ ipc \in {"done", "raised"})
        => /\ ipc = "done"
           /\ outcome = "!! No chunks to add"
           /\ addCalls = 0
           /\ store = store0

\* C11 witness: a run over two PDFs of nothing but whitespace, some of it
\* outside ASCII, against a collection that holds chunks of an earlier run.
C11_Witness ==
    /\ BatchAllBlank /\ ipc = "done" /\ outcome = NoChunksReport
    /\ Len(pdf_files) = 2
    /\ \A k \in 1..2 : pdfs[pdf_files[k]] = BlankPdf
    /\ ExtractText(BlankPdf.pages) = " \t \n "
    /\ store # EmptyStore /\ store = store0

\* the outcomes of a run in which collection.add returned
AddReturned(o) == o \in {"added", "raised_report"}

\* whether the current run completed over the same documents as the run
\* before it, which completed as well
RerunUnchanged ==
    /\ ipc \in {"done", "raised"}
    /\ \/ AddReturned(outcome) /\ AddReturned(prev.outcome)
       \/ outcome = NoChunksReport /\ prev.outcome = NoChunksReport
    /\ prev.unchanged

\* C12: re-running ingestion over an unchanged set of documents is
\* idempotent on the collection: after the second run it holds the same ids
\* with the same texts and metadata as after the first run, each id once and
\* the count unchanged.
C12_RerunIdempotent ==
    RerunUnchanged
        => /\ DOMAIN store = DOMAIN store0
           /\ \A id \in DOMAIN store : store[id] = store0[id]
           /\ Cardinality(DOMAIN store) = Cardinality(DOMAIN store0)

\* C12 witness: a second run that called add with three chunks of two PDFs
\* the first run had stored.
C12_Witness ==
    /\ RerunUnchanged /\ outcome = "added" /\ addCalls = 1
    /\ Len(all_ids) = 3 /\ Len(pdf_files) = 2
    /\ Cardinality(DOMAIN store) >= 3

\* C14: when the chat response has neither the mapping-style nor the
\* attribute-style shape, answer_question ends in UnrecognizedResponseShape;
\* the failure of the subscript or attribute access never reaches the caller.
C14_TypedShapeError ==
    (apc = "raised" /\ failedAt = "normalize")
        => /\ raisedExc = "UnrecognizedResponseShape"
           /\ raisedExc \notin {"AttributeError", "KeyError", "TypeError"}

\* C15: every answer_question call that completes without an error returns
\* a non-empty string, also when the answer text in the chat response is
\* empty.
C15_NonEmptyAnswer ==
    apc = "returned" => answer # ""

\* the distance between two window starts
Stride == chunk_size - overlap

\* text[i*s : i*s + chunk_size], for a start i*s inside the text
ExpectedWindow(i) ==
    SubSeq(text, i * Stride + 1, Min(i * Stride + chunk_size, Len(text)))

\* how many i = 0, 1, 2, ... have i*s < len(text)
WindowCount == Cardinality({i \in 0..Len(text) : i * Stride < Len(text)})

\* the windows 0 .. n-1 that are not whitespace-only, in increasing order
RECURSIVE KeptWindows(_)
KeptWindows(n) ==
    IF n = 0 THEN <<>>
    ELSE IF NonBlank(ExpectedWindow(n - 1))
         THEN Append(KeptWindows(n - 1), ExpectedWindow(n - 1))
         ELSE KeptWindows(n - 1)

\* a 1500-character text
Text1500 == PyRepeat("ab ", 500)

\* C16: for every text and valid (chunk_size, overlap) chunk_text returns
\* exactly the windows text[i*s : i*s + chunk_size], s = chunk_size -
\* overlap, for i = 0, 1, 2, ... while i*s < len(text), in increasing order
\* of i, each kept untrimmed iff it is not whitespace-only; a 1500-character
\* text with (1200, 200) yields [text[0:1200], text[1000:1500]].  A window
\* of whitespace outside ASCII is dropped like one of spaces.
C16_WindowsInOrder ==
    /\ (cpc = "loop" /\ ValidConfig) => chunks = KeptWindows(Len(windows))
    /\ (cpc = "done" /\ ValidConfig)
           => /\ Len(windows) = WindowCount
              /\ chunks = KeptWindows(WindowCount)
    /\ cpc = "call"
           => /\ Len(Text1500) = 1500
              /\ ChunkText(Text1500, CHUNK_SIZE, OVERLAP)
                     = <<SubSeq(Text1500, 1, 1200), SubSeq(Text1500, 1001, 1500)>>
              /\ ChunkText(UnicodeText, 2, 0) = <<"a ", "b">>
              /\ Len(AllWhitespaceText) = Cardinality(Whitespace)
              /\ ChunkText(AllWhitespaceText, 4, 1) = <<>>

\* C16 witness: a finished scan of three or more windows that dropped a
\* window made of tabs and whose last chunk is shorter than chunk_size.
C16_Witness ==
    /\ cpc = "done" /\ ValidConfig
    /\ Len(windows) >= 3 /\ Len(chunks) >= 2
    /\ Len(chunks) < Len(windows)
    /\ \E i \in 0..(WindowCount - 1) :
           LET w == ExpectedWindow(i)
           IN  w # "" /\ \A p \in 1..Len(w) : SubSeq(w, p, p) = "\t"
    /\ Len(chunks[Len(chunks)]) < chunk_size
    /\ chunks = KeptWindows(WindowCount)

\* C17: for every finite text and every configuration with chunk_size >
\* overlap >= 0 the scan terminates: each pass through the loop strictly
\* increases the window start, the loop is left only once the start has
\* reached or passed the text length, and every call returns.
C17_ScanTerminates ==
    /\ [][(ValidConfig /\ cpc = "loop" /\ cpc' = "loop") => start' > start]_vars
    /\ [][(ValidConfig /\ cpc = "loop" /\ cpc' = "done")
              => start >= Len(text)]_vars
    /\ []((ValidConfig /\ cpc = "call") => <>(cpc = "done"))

\* C17 witness: a call on a non-empty text that returned after four passes,
\* each window starting after the one before it.
C17_Witness ==
    /\ cpc = "done" /\ ValidConfig
    /\ Len(windows) = 4
    /\ \A i \in 1..3 : windows[i + 1].start > windows[i].start
    /\ start >= Len(text)
    /\ windows[4].start < Len(text)

\* C18: an ingestion run calls collection.add at most once, and only after
\* every PDF of the batch has been extracted and chunked; the collection
\* changes in no other step; so a run in which a PDF raises has added no
\* chunk of any PDF, earlier ones included.
C18_SingleAddAfterAll ==
    /\ [](addCalls <= 1)
    /\ [](addCalls = 1
            => /\ di = Len(pdf_files)
               /\ \A k \in 1..Len(pdf_files) : pdfs[pdf_files[k]].readable)
    /\ [][store' # store
            => /\ addCalls = 0 /\ addCalls' = 1
               /\ di = Len(pdf_files) /\ pdf_files # <<>>]_vars
    /\ []((ipc = "raised" /\ outcome = "raised_extract")
            => addCalls = 0 /\ store = store0)

\* C18 witness: the second PDF of a batch cannot be opened after the first
\* one gave chunks; nothing has been added.
C18_Witness ==
    /\ ipc = "raised" /\ outcome = "raised_extract"
    /\ Len(pdf_files) = 2 /\ di = 1
    /\ Len(all_docs) >= 1
    /\ addCalls = 0 /\ store = store0

(***************************************************************************)
(* Properties of extract_text_from_pdf                                     *)
(***************************************************************************)
\* the entry the k-th page is to contribute: its text, or nothing when it
\* has none or its extraction failed
PageEntry(k) ==
    IF pdf.pages[k].kind = "text" THEN pdf.pages[k].text ELSE ""

\* the entries of the first k pages, one per page, separated by newlines
RECURSIVE EntriesJoined(_)
EntriesJoined(k) ==
    IF k = 0 THEN ""
    ELSE IF k = 1 THEN PageEntry(1)
    ELSE EntriesJoined(k - 1) \o "\n" \o PageEntry(k)

Newlines(s) == Cardinality({i \in 1..Len(s) : SubSeq(s, i, i) = "\n"})

\* C13: extraction never raises past a single page: a page whose extraction
\* fails contributes empty text, the remaining pages are still extracted,
\* and the call returns a string of one newline-joined entry per page.  (The
\* only exception that leaves the call is PdfReader failing to open the
\* file, before any page is touched.)
C13_PageFailureContained ==
    /\ epc \in {"loop", "done"}
           => /\ Len(texts) = pg
              /\ \A k \in 1..pg : texts[k] = PageEntry(k)
              /\ \A k \in 1..Len(logged) :
                     pdf.pages[logged[k] + 1].kind = "raises"
    /\ epc = "done"
           => /\ pg = Len(pdf.pages)
              /\ joined_text = EntriesJoined(Len(pdf.pages))
              /\ joined_text = ExtractText(pdf.pages)
              /\ Newlines(joined_text) = Max(Len(pdf.pages) - 1, 0)
    /\ epc = "raised" => ~pdf.readable /\ pg = 0 /\ logged = <<>>

\* C13 witness: three pages, the middle one failing, the call returned the
\* texts of the first and the third around an empty entry.
C13_Witness ==
    /\ epc = "done" /\ Len(pdf.pages) = 3
    /\ pdf.pages[2].kind = "raises"
    /\ pdf.pages[1].kind = "text" /\ pdf.pages[1].text # ""
    /\ pdf.pages[3].kind = "text" /\ pdf.pages[3].text # ""
    /\ logged = <<1>>
    /\ joined_text = pdf.pages[1].text \o "\n\n" \o pdf.pages[3].text

(***************************************************************************)
(* Properties of the chat page                                             *)
(***************************************************************************)
\* user, assistant, user, assistant, ...
Alternates(h) ==
    \A i \in 1..Len(h) :
        h[i].role = (IF i % 2 = 1 THEN "user" ELSE "assistant")

\* C19 (as stated): every submitted question appends exactly two turns in
\* order, a user turn with the question and then an assistant turn, also
\* when answer_question raises; so the history alternates user, assistant,
\* and between two script runs it holds two turns per question asked.
C19_TwoTurnsPerQuestion ==
    /\ Alternates(history)
    /\ upc = "idle" => Len(history) = 2 * asked

====
